---- MODULE Spec2Model ----
(***************************************************************************)
(* trace-wrap, trstats.py: the traceroute line parser                      *)
(* (parse_traceroute_output), the run loops (execute_traceroute,           *)
(* use_test_directory) and the cross-run aggregator                        *)
(* (get_statistics_per_hop).                                               *)
(*                                                                         *)
(* Text.  A token is a sequence of one-character strings, a line is the    *)
(* sequence of its whitespace-separated tokens (the result of str.split),  *)
(* and int(), float() and the `in` tests are computed on the characters.   *)
(*                                                                         *)
(* Numbers.  A latency is an integer count of 1/Unit milliseconds, with    *)
(* Unit = 4 * 10^FracDigits, so that a literal of up to FracDigits         *)
(* decimals, the midpoint of two of them (a per-run median) and the        *)
(* midpoint of two such midpoints (an aggregate median) are all exact.     *)
(* round(x, n) is round-half-to-even on the decimal value, which is what   *)
(* Python documents; the sample literals of the model never put a total    *)
(* at an exact decimal tie before a rounding that decides a property.      *)
(* None is the integer -1: no latency of the model is negative, because    *)
(* the float literals of the model carry no sign.                          *)
(***************************************************************************)
EXTENDS Integers, Sequences, FiniteSets, TLC

\* Bounds of the model.
MaxRuns == 2       \* runs (traceroute invocations, or fixture files)
MaxLines == 2      \* body lines read over the whole execution
MaxProbes == 3     \* probe fields after the hop index on one line
FracDigits == 4    \* decimals a latency literal may carry

VARIABLES
    family,          \* which family of input lines the environment delivers
    mode,            \* "test" (args.test given) or "live"
    num_runs,        \* args.num_runs, or the number of files in the directory
    pc,              \* "loop" | "parse" | "done" | "raised"
    i,               \* runs finished so far (the loop index)
    nlines,          \* body lines read so far, over all runs
    parts,           \* the tokens of the line just parsed (parts = hop.split())
    parsed_output,   \* parse_traceroute_output's list under construction
    cumulative_data, \* the list of the runs' parsed outputs
    stats_per_hop    \* get_statistics_per_hop's result, once computed

vars == <<family, mode, num_runs, pc, i, nlines, parts, parsed_output,
          cumulative_data, stats_per_hop>>

None == -1

----------------------------------------------------------------------------
\* Characters, int() and float()

DigitChars == <<"0", "1", "2", "3", "4", "5", "6", "7", "8", "9">>

IsDigit(c) == \E k \in 1..10 : DigitChars[k] = c

DigitVal(c) == (CHOOSE k \in 1..10 : DigitChars[k] = c) - 1

RECURSIVE Pow10(_)
Pow10(n) == IF n = 0 THEN 1 ELSE 10 * Pow10(n - 1)

\* Latency units in one millisecond.
Unit == 4 * Pow10(FracDigits)

\* The value of a string of decimal digits (0 for the empty string).
RECURSIVE DigitsValue(_)
DigitsValue(s) ==
    IF s = <<>> THEN 0
    ELSE 10 * DigitsValue(SubSeq(s, 1, Len(s) - 1)) + DigitVal(s[Len(s)])

\* int(x['hop']) of the sort key, for a hop index written in decimal digits.
int(s) == DigitsValue(s)

\* c in part, for a character c.
HasChar(part, c) == \E k \in 1..Len(part) : part[k] = c

\* 'ms' in part
HasMs(part) == \E k \in 1..(Len(part) - 1) : part[k] = "m" /\ part[k + 1] = "s"

\* '(' in part and ')' in part
IsAddress(part) == HasChar(part, "(") /\ HasChar(part, ")")

DotAt(s) == IF HasChar(s, ".") THEN CHOOSE k \in 1..Len(s) : s[k] = "." ELSE Len(s) + 1

\* Whether float(s) returns: digits with at most one point and at least one
\* digit.  Anything else the model's lines hold (a name, '*', 'ms', an
\* address) makes float raise ValueError.
IsFloatLiteral(s) ==
    /\ Cardinality({k \in 1..Len(s) : s[k] = "."}) <= 1
    /\ \A k \in 1..Len(s) : s[k] = "." \/ IsDigit(s[k])
    /\ \E k \in 1..Len(s) : IsDigit(s[k])

\* float(s) in latency units, for a literal of at most FracDigits decimals.
float(s) ==
    LET d == DotAt(s)
        whole == SubSeq(s, 1, d - 1)
        frac == SubSeq(s, d + 1, Len(s))
    IN  4 * (DigitsValue(whole) * Pow10(FracDigits)
             + DigitsValue(frac) * Pow10(FracDigits - Len(frac)))

----------------------------------------------------------------------------
\* Arithmetic of the statistics

RECURSIVE sum(_)
sum(xs) == IF xs = <<>> THEN 0 ELSE xs[1] + sum(Tail(xs))

max(xs) == CHOOSE x \in {xs[k] : k \in 1..Len(xs)} : \A k \in 1..Len(xs) : xs[k] <= x

min(xs) == CHOOSE x \in {xs[k] : k \in 1..Len(xs)} : \A k \in 1..Len(xs) : x <= xs[k]

\* round(n / d, ndigits) where q is the latency units in 10^-ndigits ms:
\* the multiple of q nearest to n / d, an exact tie going to the even multiple.
RoundTo(n, d, q) ==
    LET m == d * q
        k == n \div m
        r == n - k * m
    IN  IF 2 * r < m THEN k * q
        ELSE IF 2 * r > m THEN (k + 1) * q
        ELSE IF k % 2 = 0 THEN k * q ELSE (k + 1) * q

Q2 == Unit \div 100     \* two decimals
Q3 == Unit \div 1000    \* three decimals

\* sorted(xs)
RECURSIVE sorted(_)
sorted(xs) ==
    IF xs = <<>> THEN <<>>
    ELSE LET m == min(xs)
             k == CHOOSE j \in 1..Len(xs) : xs[j] = m
         IN  <<m>> \o sorted(SubSeq(xs, 1, k - 1) \o SubSeq(xs, k + 1, Len(xs)))

\* statistics.median(xs): the middle value, or the mean of the two middle ones.
median(xs) ==
    LET s == sorted(xs)
        n == Len(s)
    IN  IF n % 2 = 1 THEN s[(n + 1) \div 2]
        ELSE (s[n \div 2] + s[n \div 2 + 1]) \div 2

----------------------------------------------------------------------------
\* parse_traceroute_output

TracerouteOutput(avg, hop, hosts, maximum, med, minimum) ==
    [avg |-> avg, hop |-> hop, hosts |-> hosts, maximum |-> maximum,
     median |-> med, minimum |-> minimum]

Star == <<"*">>

\* parts[1:4] == ["*"] * 3
IsTimeout(p) == SubSeq(p, 2, IF Len(p) < 4 THEN Len(p) ELSE 4) = <<Star, Star, Star>>

\* The scan "for i in range(1, len(parts))" from token k on (k counts from 1,
\* so the hop index is token 1 and the scan starts at k = 2): the host pairs
\* collected, in order.
RECURSIVE ScanHosts(_, _)
ScanHosts(p, k) ==
    IF k > Len(p) THEN <<>>
    ELSE (IF IsAddress(p[k]) THEN <<(<<p[k - 1], p[k]>>)>> ELSE <<>>)
         \o ScanHosts(p, k + 1)

\* The same scan: the latencies collected, in order.  A token holding 'ms'
\* that is no address makes the token before it a latency, and a token float()
\* rejects is skipped.
RECURSIVE ScanTimes(_, _)
ScanTimes(p, k) ==
    IF k > Len(p) THEN <<>>
    ELSE (IF ~IsAddress(p[k]) /\ HasMs(p[k]) /\ IsFloatLiteral(p[k - 1])
          THEN <<float(p[k - 1])>> ELSE <<>>)
         \o ScanTimes(p, k + 1)

\* minimum = max(times)
Minimum(times) == max(times)

\* The statistics of one line's samples ("if times:").
Stats(hop_number, hosts, times) ==
    TracerouteOutput(RoundTo(sum(times), Len(times), Q2), hop_number, hosts,
                     max(times), median(times), Minimum(times))

\* One pass of the loop "for hop in hops" over a line with at least one token:
\* parsed_output after it.
ParseLine(out, p) ==
    LET hop_number == p[1]
        times == ScanTimes(p, 2)
        hosts == ScanHosts(p, 2)
    IN  IF IsTimeout(p)
        THEN Append(out, TracerouteOutput(None, hop_number, <<>>, None, None, None))
        ELSE IF times # <<>>
             THEN Append(out, Stats(hop_number, hosts, times))
             ELSE out

----------------------------------------------------------------------------
\* get_statistics_per_hop

RECURSIVE Flatten(_)
Flatten(runs) == IF runs = <<>> THEN <<>> ELSE runs[1] \o Flatten(Tail(runs))

HasKey(hop_data, hop) == \E k \in 1..Len(hop_data) : hop_data[k].hop = hop

\* "if result.avg:": None and 0.0 are both false.
Truthy(avg) == avg # None /\ avg # 0

\* hop_data[hop]['hosts'].append(result.hosts)
AddHosts(acc, hosts) == Append(acc, hosts)

\* hop_data is the dict as the sequence of its entries in insertion order,
\* each entry carrying its key.  "if hop not in hop_data: hop_data[hop] = {...}"
Register(hop_data, hop) ==
    IF HasKey(hop_data, hop) THEN hop_data
    ELSE Append(hop_data, [hop |-> hop, avg |-> <<>>, max |-> <<>>,
                           med |-> <<>>, min |-> <<>>, hosts |-> <<>>])

\* The five appends to hop_data[hop].
Accumulate(hop_data, result) ==
    [k \in 1..Len(hop_data) |->
        IF hop_data[k].hop = result.hop
        THEN [hop_data[k] EXCEPT
                !.avg = Append(@, result.avg),
                !.max = Append(@, result.maximum),
                !.med = Append(@, result.median),
                !.min = Append(@, result.minimum),
                !.hosts = AddHosts(@, result.hosts)]
        ELSE hop_data[k]]

\* The key is registered only by a record that contributes.
GroupSkipsNull(hop_data, result) ==
    IF Truthy(result.avg)
    THEN Accumulate(Register(hop_data, result.hop), result)
    ELSE hop_data

\* One pass of the grouping loop.
Group(hop_data, result) ==
    IF Truthy(result.avg)
    THEN Accumulate(Register(hop_data, result.hop), result)
    ELSE Register(hop_data, result.hop)

RECURSIVE GroupAll(_)
GroupAll(results) ==
    IF results = <<>> THEN <<>>
    ELSE Group(GroupAll(SubSeq(results, 1, Len(results) - 1)), results[Len(results)])

\* round(max(data['max']), 3)
AggMax(xs) == RoundTo(max(xs), 1, Q3)

\* The minimum taken with max, as on the parser's line 130.
AggMinAsMax(xs) == RoundTo(max(xs), 1, Q3)

\* round(min(data['min']), 3)
AggMin(xs) == RoundTo(min(xs), 1, Q3)

\* round(statistics.median(data['med']), 3)
AggMed(xs) == RoundTo(median(xs), 1, Q3)

\* The sum is not divided by the number of runs.
AggAvgNoDivide(xs) == RoundTo(sum(xs), 1, Q3)

\* round(statistics.mean(data['avg']), 3)
AggAvg(xs) == RoundTo(sum(xs), Len(xs), Q3)

HopStats(data) ==
    [avg |-> IF data.avg # <<>> THEN AggAvg(data.avg) ELSE None,
     hop |-> data.hop,
     hosts |-> data.hosts,
     max |-> IF data.max # <<>> THEN AggMax(data.max) ELSE None,
     med |-> IF data.med # <<>> THEN AggMed(data.med) ELSE None,
     min |-> IF data.min # <<>> THEN AggMin(data.min) ELSE None]

\* The sort key: lambda x: int(x['hop'])
SortKey(x) == int(x.hop)

\* list.sort(key=...) is stable: x goes after every entry whose key is not
\* larger than its own.
RECURSIVE SortByHop(_)
SortByHop(xs) ==
    IF xs = <<>> THEN <<>>
    ELSE LET front == SortByHop(SubSeq(xs, 1, Len(xs) - 1))
             x == xs[Len(xs)]
             n == Cardinality({k \in 1..Len(front) : SortKey(front[k]) <= SortKey(x)})
         IN  SubSeq(front, 1, n) \o <<x>> \o SubSeq(front, n + 1, Len(front))

get_statistics_per_hop(data) ==
    LET hop_data == GroupAll(Flatten(data))
    IN  SortByHop([k \in 1..Len(hop_data) |-> HopStats(hop_data[k])])

----------------------------------------------------------------------------
\* The input: what a run's text may hold

Ms == <<"m", "s">>
Gw == <<"g", "w">>
Ip == <<"(", "i", "p", ")">>

\* Latency literals: "1.5", "0.5", "0.0004", "1.0016".
L15 == <<"1", ".", "5">>
L05 == <<"0", ".", "5">>
L00004 == <<"0", ".", "0", "0", "0", "4">>
L10016 == <<"1", ".", "0", "0", "1", "6">>

Families == {"order", "stats", "zero", "hosts"}

\* The hop indices a family's lines start with: "2", "10" and "02" (the same
\* number as "2", written differently), or one hop.
HopTexts(f) ==
    CASE f = "order" -> {<<"2">>, <<"1", "0">>, <<"0", "2">>}
      [] f = "stats" -> {<<"1">>}
      [] f = "zero" -> {<<"1">>}
      [] f = "hosts" -> {<<"7">>}

\* The probe fields of a family, each a run of tokens: a timed-out probe, a
\* latency with its unit, a host name with its address, a name where a
\* latency should be.  "zero" holds the latency whose average rounds to 0.0.
Fields(f) ==
    CASE f = "order" -> {<<Star>>, <<L15, Ms>>}
      [] f = "stats" -> {<<L05, Ms>>, <<L10016, Ms>>}
      [] f = "zero" -> {<<Star>>, <<L00004, Ms>>}
      [] f = "hosts" -> {<<Gw, Ip>>, <<L15, Ms>>, <<Gw, Ms>>}

\* The token runs made of at most n fields.
RECURSIVE Bodies(_, _)
Bodies(f, n) ==
    IF n = 0 THEN {<<>>}
    ELSE LET shorter == Bodies(f, n - 1)
         IN  shorter \cup {b \o x : b \in shorter, x \in Fields(f)}

\* The lines with a hop index, split into tokens.
Lines(f) == {<<h>> \o b : h \in HopTexts(f), b \in Bodies(f, MaxProbes)}

----------------------------------------------------------------------------
\* The program: unwrap_arguments runs one of the two loops, then
\* get_statistics_per_hop.

InitOf(F) ==
    /\ family \in F
    /\ mode \in {"live", "test"}
    /\ num_runs \in 0..MaxRuns
    /\ pc = "loop"
    /\ i = 0
    /\ nlines = 0
    /\ parts = <<>>
    /\ parsed_output = <<>>
    /\ cumulative_data = <<>>
    /\ stats_per_hop = <<>>

Init == InitOf(Families)

\* execute_traceroute: the subprocess exits non-zero (the subroutine prints
\* the error and returns None) or prints nothing; "if traceroute_data:" skips
\* the run and the loop goes on.
SubprocessFails ==
    /\ pc = "loop" /\ mode = "live" /\ i < num_runs
    /\ i' = i + 1
    /\ UNCHANGED <<family, mode, num_runs, pc, nlines, parts, parsed_output,
                   cumulative_data, stats_per_hop>>

\* use_test_directory: open() or read() of a fixture raises; nothing catches it.
OpenFails ==
    /\ pc = "loop" /\ mode = "test" /\ i < num_runs
    /\ pc' = "raised"
    /\ UNCHANGED <<family, mode, num_runs, i, nlines, parts, parsed_output,
                   cumulative_data, stats_per_hop>>

\* Either loop: a run's text is there, and parse_traceroute_output starts on
\* it (the header line is skipped).
StartParse ==
    /\ pc = "loop" /\ i < num_runs
    /\ pc' = "parse"
    /\ parsed_output' = <<>>
    /\ UNCHANGED <<family, mode, num_runs, i, nlines, parts, cumulative_data,
                   stats_per_hop>>

\* One pass of "for hop in hops" over the next body line.
ParseStep ==
    /\ pc = "parse" /\ nlines < MaxLines
    /\ \E line \in Lines(family) :
          /\ parts' = line
          /\ parsed_output' = ParseLine(parsed_output, line)
    /\ nlines' = nlines + 1
    /\ UNCHANGED <<family, mode, num_runs, pc, i, cumulative_data, stats_per_hop>>

\* The next body line is blank: parts is empty and parts[0] raises IndexError,
\* which neither the parser nor the loops catch.
BlankLine ==
    /\ pc = "parse" /\ nlines < MaxLines
    /\ parts' = <<>>
    /\ pc' = "raised"
    /\ nlines' = nlines + 1
    /\ UNCHANGED <<family, mode, num_runs, i, parsed_output, cumulative_data,
                   stats_per_hop>>

\* The text is exhausted: the parser returns and the loop appends its list.
ParseReturns ==
    /\ pc = "parse"
    /\ cumulative_data' = Append(cumulative_data, parsed_output)
    /\ parsed_output' = <<>>
    /\ parts' = <<>>
    /\ i' = i + 1
    /\ pc' = "loop"
    /\ UNCHANGED <<family, mode, num_runs, nlines, stats_per_hop>>

\* The loop is over: stats_per_hop = get_statistics_per_hop(cumulative_data).
Aggregate ==
    /\ pc = "loop" /\ i = num_runs
    /\ stats_per_hop' = get_statistics_per_hop(cumulative_data)
    /\ pc' = "done"
    /\ UNCHANGED <<family, mode, num_runs, i, nlines, parts, parsed_output,
                   cumulative_data>>

Next ==
    \/ SubprocessFails
    \/ OpenFails
    \/ StartParse
    \/ ParseStep
    \/ BlankLine
    \/ ParseReturns
    \/ Aggregate

Spec == Init /\ [][Next]_vars

\* The same program on one family of lines.
SpecOrder == InitOf({"order"}) /\ [][Next]_vars
SpecStats == InitOf({"stats", "zero"}) /\ [][Next]_vars
SpecHosts == InitOf({"hosts"}) /\ [][Next]_vars

----------------------------------------------------------------------------
\* Vocabulary of the properties

\* Every record parsed so far, in run order then line order.
Records == Flatten(cumulative_data)

\* The records of hop text h among rs, in order.
OfHop(rs, h) == SelectSeq(rs, LAMBDA r : r.hop = h)

\* The records among rs whose numeric fields are not null.
WithData(rs) == SelectSeq(rs, LAMBDA r : r.avg # None)

\* The records among rs that pass "if result.avg:".
Contributing(rs) == SelectSeq(rs, LAMBDA r : Truthy(r.avg))

\* The entries of the aggregate list xs for hop text h.
EntriesOf(xs, h) == SelectSeq(xs, LAMBDA e : e.hop = h)

HopsOf(rs) == {rs[k].hop : k \in 1..Len(rs)}

Maxima(rs) == [k \in 1..Len(rs) |-> rs[k].maximum]
Minima(rs) == [k \in 1..Len(rs) |-> rs[k].minimum]

RECURSIVE HostCount(_)
HostCount(rs) == IF rs = <<>> THEN 0 ELSE Len(rs[1].hosts) + HostCount(Tail(rs))

\* The parser has just finished a pass over the line in parts.
JustParsed == pc = "parse" /\ parts # <<>>

LastRecord == parsed_output[Len(parsed_output)]

AllNull(e) == e.avg = None /\ e.max = None /\ e.med = None /\ e.min = None

----------------------------------------------------------------------------
\* C1.  The list get_statistics_per_hop returns is strictly ascending by
\* int(hop): each entry's numeric hop index is smaller than the next one's.
C1_StrictlyAscending ==
    pc = "done" =>
        \A k \in 1..(Len(stats_per_hop) - 1) :
            int(stats_per_hop[k].hop) < int(stats_per_hop[k + 1].hop)

\* C2.  After a pass over a non-timeout line with at least one latency sample,
\* the record's minimum is the smallest sample and its maximum the largest.
C2_MinimumIsSmallest ==
    (JustParsed /\ ~IsTimeout(parts) /\ ScanTimes(parts, 2) # <<>>) =>
        /\ parsed_output # <<>>
        /\ LastRecord.minimum = min(ScanTimes(parts, 2))
        /\ LastRecord.maximum = max(ScanTimes(parts, 2))

\* C3.  minimum <= median <= maximum in every per-run record with data and in
\* every aggregate record with data.
C3_MinMedMax ==
    /\ \A k \in 1..Len(parsed_output) :
          parsed_output[k].avg # None =>
              /\ parsed_output[k].minimum <= parsed_output[k].median
              /\ parsed_output[k].median <= parsed_output[k].maximum
    /\ \A k \in 1..Len(Records) :
          Records[k].avg # None =>
              /\ Records[k].minimum <= Records[k].median
              /\ Records[k].median <= Records[k].maximum
    /\ pc = "done" =>
          \A k \in 1..Len(stats_per_hop) :
              stats_per_hop[k].med # None =>
                  /\ stats_per_hop[k].min <= stats_per_hop[k].med
                  /\ stats_per_hop[k].med <= stats_per_hop[k].max

\* C4.  A timeout line (the hop index, then three '*') gives a record with the
\* line's hop index, no host and null numerics; and a hop index all of whose
\* records are such records has exactly one entry in the aggregate, with an
\* empty host list and avg, max, med and min all null.
C4_TimeoutHopKept ==
    /\ (JustParsed /\ IsTimeout(parts)) =>
          /\ parsed_output # <<>>
          /\ LastRecord = TracerouteOutput(None, parts[1], <<>>, None, None, None)
    /\ pc = "done" =>
          \A h \in HopsOf(Records) :
              WithData(OfHop(Records, h)) = <<>> =>
                  /\ Len(EntriesOf(stats_per_hop, h)) = 1
                  /\ EntriesOf(stats_per_hop, h)[1].hosts = <<>>
                  /\ AllNull(EntriesOf(stats_per_hop, h)[1])

\* C4's case: two runs, each with a timeout line for hop "10" and nothing
\* else, have been aggregated.
C4_Witness ==
    /\ pc = "done"
    /\ Len(cumulative_data) = 2
    /\ \A r \in 1..2 :
          /\ Len(cumulative_data[r]) = 1
          /\ cumulative_data[r][1].hop = <<"1", "0">>
          /\ cumulative_data[r][1].avg = None
    /\ Len(stats_per_hop) = 1

\* C5.  The length of an aggregate entry's host list is the number of host
\* pairs parsed for its hop over all runs.
C5_HostsConcatenated ==
    pc = "done" =>
        \A k \in 1..Len(stats_per_hop) :
            Len(stats_per_hop[k].hosts)
                = HostCount(OfHop(Records, stats_per_hop[k].hop))

\* C6.  Every pass over a line appends exactly one record, which carries the
\* line's hop index; for a non-timeout line with no latency sample the record
\* has the line's host pairs and null numerics.
C6_OneRecordPerLine ==
    /\ pc # "raised" => Len(Records) + Len(parsed_output) = nlines
    /\ JustParsed =>
          /\ parsed_output # <<>>
          /\ LastRecord.hop = parts[1]
          /\ (~IsTimeout(parts) /\ ScanTimes(parts, 2) = <<>>) =>
                LastRecord = TracerouteOutput(None, parts[1], ScanHosts(parts, 2),
                                              None, None, None)

\* C7.  A run that cannot be acquired or parsed never aborts the loop: no
\* exception leaves it, every run is gone through, and the aggregate is
\* computed over the runs that were parsed.
C7_BadRunIsDropped ==
    /\ pc # "raised"
    /\ pc = "done" =>
          /\ i = num_runs
          /\ stats_per_hop = get_statistics_per_hop(cumulative_data)

\* The runs parsed so far whose hop indices are all different.
RunsWithUniqueHops ==
    {r \in 1..Len(cumulative_data) :
        \A a, b \in 1..Len(cumulative_data[r]) :
            cumulative_data[r][a].hop = cumulative_data[r][b].hop => a = b}

\* The aggregate entry of record x's hop when the run R is fed in twice.
Twice(R, x) == EntriesOf(get_statistics_per_hop(<<R, R>>), x.hop)[1]

C9_Verbatim ==
    pc = "done" =>
        \A k \in 1..Len(stats_per_hop) :
            LET e == stats_per_hop[k]
                c == Contributing(OfHop(Records, e.hop))
            IN  c # <<>> =>
                    /\ e.max = max(Maxima(c))
                    /\ e.min = min(Minima(c))

\* C9 as amended.  The aggregate maximum is the largest accumulated per-run
\* maximum rounded to three decimals, and the aggregate minimum the smallest
\* accumulated per-run minimum rounded to three decimals.
C9_Rounded ==
    pc = "done" =>
        \A k \in 1..Len(stats_per_hop) :
            LET e == stats_per_hop[k]
                c == Contributing(OfHop(Records, e.hop))
            IN  c # <<>> =>
                    /\ e.max = RoundTo(max(Maxima(c)), 1, Q3)
                    /\ e.min = RoundTo(min(Minima(c)), 1, Q3)

\* C9's case: a hop has two contributions with different maxima and different
\* minima, and rounding changes the largest maximum.
C9_Witness ==
    /\ pc = "done"
    /\ \E k \in 1..Len(stats_per_hop) :
          LET e == stats_per_hop[k]
              c == Contributing(OfHop(Records, e.hop))
          IN  /\ Len(c) = 2
              /\ c[1].maximum # c[2].maximum
              /\ c[1].minimum # c[2].minimum
              /\ e.max # max(Maxima(c))

\* C10.  A record contributes to its hop's accumulator if and only if its
\* numeric fields are not null: the entry has one host list per record with
\* data, and its fields are null only when no record of the hop has data.
C10_ContributesIffNonNull ==
    pc = "done" =>
        \A k \in 1..Len(stats_per_hop) :
            LET e == stats_per_hop[k]
                d == WithData(OfHop(Records, e.hop))
            IN  /\ Len(e.hosts) = Len(d)
                /\ e.avg = None <=> d = <<>>

====
